---- MODULE Spec2Model ----
(***************************************************************************)
(* Model of the multi-spindle tracker of preprocessing_kozo.py: the        *)
(* bounding-box regularisation of spindle_segmentation and the main        *)
(* frame-by-frame tracking loop that fills tracked_spindles.               *)
(*                                                                         *)
(* Units.  center_row - size / 2 is a multiple of one half, so every       *)
(* regularised bounding-box coordinate is stored here in HALF PIXELS       *)
(* (twice the program's value) and every area in quarter pixels (four      *)
(* times the program's value).  Raw boxes and centroids are in pixels.     *)
(* Python indexes from 0 and TLA+ sequences from 1: spindle_number,        *)
(* row_ind and col_ind hold the program's 0-based values.                  *)
(***************************************************************************)
EXTENDS Integers, Sequences, FiniteSets

\* ------------------------------------------------------------------ bounds
\* largest nr_frames of a run
MaxFrames == 3
\* largest number of regions regionprops returns for one frame
MaxInst == 2
\* longest centroid list of the matcher taken on its own (MatchSpec)
MaxMatch == 2
\* image extents img.shape[0], img.shape[1], in pixels
ImgRows == 8
ImgCols == 8
\* largest opt.padding of a run
MaxPadding == 1
\* cdist distances are kept in 1/DistScale pixels
DistScale == 1000

\* ------------------------------------------------------------------ values
None == 0 - 1

Max2(a, b) == IF a >= b THEN a ELSE b
Min2(a, b) == IF a <= b THEN a ELSE b

img_shape == <<ImgRows, ImgCols>>

\* Regions regionprops can report in one frame: raw bbox (min_row, min_col,
\* max_row, max_col), half-open, in pixels, and centroid (row, col).  They are
\* the pixel sets {(0,3),(0,4),(0,5)}, {(1,1)}, {(2,5)} and
\* {(4,2),(4,3),(4,4)}, no two of them adjacent, in label (raster) order.
Regions ==
  << [bbox |-> <<0, 3, 1, 6>>, centroid |-> <<0, 4>>],
     [bbox |-> <<1, 1, 2, 2>>, centroid |-> <<1, 1>>],
     [bbox |-> <<2, 5, 3, 6>>, centroid |-> <<2, 5>>],
     [bbox |-> <<4, 2, 5, 5>>, centroid |-> <<4, 3>>] >>

RECURSIVE SortedSeq(_)
\* the elements of a finite set of integers, ascending
SortedSeq(S) ==
  IF S = {} THEN <<>>
  ELSE LET m == CHOOSE x \in S : \A y \in S : x <= y
       IN  <<m>> \o SortedSeq(S \ {m})

\* what regionprops returns for one frame: the regions of an index set, in
\* label order
Detections ==
  { [k \in 1..Cardinality(S) |-> Regions[SortedSeq(S)[k]]] :
      S \in { T \in SUBSET (1..Len(Regions)) : Cardinality(T) <= MaxInst } }

\* ------------------------------------------------------------- img_read
\* lines 168-175: the spindle channel after max projection is scaled by
\* (img - min) / (max - min).  With max = min the division is 0 / 0: numpy
\* gives nan in every pixel and a warning (ignored, line 67); nothing is raised
img_read(zero_variance) == IF zero_variance THEN "nan" ELSE "finite"

\* lines 215-228 on an image of nan: no pixel is below 0.3 or above 0.4, so
\* there is no marker and watershed labels nothing; seg_spindle - 1 is then
\* non-zero in every pixel, so the whole image is one foreground component,
\* which remove_small_objects keeps or drops by its size.  Its centroid
\* (rounded down here) is never used: the box spans the image
NanDetections ==
  { <<>>,
    << [ bbox |-> <<0, 0, ImgRows, ImgCols>>,
         centroid |-> <<(ImgRows - 1) \div 2, (ImgCols - 1) \div 2>> ] >> }

\* lines 215-228: what regionprops can return for the image
SegmentedRegions(img) == IF img = "nan" THEN NanDetections ELSE Detections

\* ------------------------------------------------- spindle_segmentation
RegularizePadOnce(bbox, padding, shape) ==
  LET center_row2 == bbox[1] + bbox[3]
      center_col2 == bbox[2] + bbox[4]
      width  == bbox[3] - bbox[1]
      height == bbox[4] - bbox[2]
      size   == Max2(width, height) + padding
  IN  << Max2(0, center_row2 - size),
         Max2(0, center_col2 - size),
         Min2(2 * shape[1], center_row2 + size),
         Min2(2 * shape[2], center_col2 + size) >>

\* lines 241-252: the padded square around the raw box, clamped to the image
Regularize(bbox, padding, shape) ==
  LET center_row2 == bbox[1] + bbox[3]
      center_col2 == bbox[2] + bbox[4]
      width  == bbox[3] - bbox[1]
      height == bbox[4] - bbox[2]
      size   == Max2(width, height) + 2 * padding
  IN  << Max2(0, center_row2 - size),
         Max2(0, center_col2 - size),
         Min2(2 * shape[1], center_row2 + size),
         Min2(2 * shape[2], center_col2 + size) >>

AcceptTouching(box, shape) ==
  /\ box[1] >= 0
  /\ box[2] >= 0
  /\ box[3] <= 2 * shape[1]
  /\ box[4] <= 2 * shape[2]

\* line 256: the box is kept only if it does not touch the image boundary
Accept(box, shape) ==
  /\ box[1] > 0
  /\ box[2] > 0
  /\ box[3] < 2 * shape[1]
  /\ box[4] < 2 * shape[2]

\* lines 231-266: bbox_list and centroid_list of the kept regions
spindle_segmentation(regions, padding, shape) ==
  LET kept == SelectSeq(regions,
                LAMBDA r : Accept(Regularize(r.bbox, padding, shape), shape))
  IN  [ bbox_list |-> [k \in 1..Len(kept) |->
                         Regularize(kept[k].bbox, padding, shape)],
        centroid_list |-> [k \in 1..Len(kept) |-> kept[k].centroid] ]

\* ------------------------------------------------------- main flow helpers
\* lines 513-533: the records of the current frame, identity not yet set;
\* area is (maxr - minr) * (maxc - minc)
CurrentFrameSpindles(bbox_l, centroid_l, frame) ==
  [ i \in 1..Len(bbox_l) |->
      [ frame_number |-> frame,
        spindle_number |-> i - 1,
        bounding_box |-> bbox_l[i],
        centroid |-> centroid_l[i],
        area |-> (bbox_l[i][3] - bbox_l[i][1]) * (bbox_l[i][4] - bbox_l[i][2]),
        tracked_spindle_number |-> None ] ]

MintAllSameId(cur, next) ==
  [ spindles |-> [ i \in 1..Len(cur) |->
                     [cur[i] EXCEPT !.tracked_spindle_number = next] ],
    next |-> next + 1,
    minted |-> [ i \in 1..Len(cur) |-> next ] ]

\* lines 537-539: every spindle of the first frame takes next_spindle_id,
\* which is incremented after each
MintAll(cur, next) ==
  [ spindles |-> [ i \in 1..Len(cur) |->
                     [cur[i] EXCEPT !.tracked_spindle_number = next + i - 1] ],
    next |-> next + Len(cur),
    minted |-> [ i \in 1..Len(cur) |-> next + i - 1 ] ]

ExtendFront(ledger, batch) == batch \o ledger

\* lines 540, 579: tracked_spindles.extend(current_frame_spindles)
Extend(ledger, batch) == ledger \o batch

AllEarlierSpindles(ledger, frame) ==
  SelectSeq(ledger, LAMBDA s : s.frame_number <= frame - 1)

LastFrameIdentified(ledger, frame) ==
  SelectSeq(ledger, LAMBDA s : /\ s.frame_number = frame - 1
                               /\ s.tracked_spindle_number # None)

\* line 544: the ledger's spindles of the frame before, with or without an
\* identity
LastFrameSpindles(ledger, frame) ==
  SelectSeq(ledger, LAMBDA s : s.frame_number = frame - 1)

\* lines 545-546
Centroids(spindles) == [ i \in 1..Len(spindles) |-> spindles[i].centroid ]

RECURSIVE ISqrtIn(_, _, _)
\* the r in lo..hi-1 with r*r <= x < (r+1)*(r+1), given lo*lo <= x < hi*hi
ISqrtIn(x, lo, hi) ==
  IF hi - lo <= 1 THEN lo
  ELSE LET mid == (lo + hi) \div 2
       IN  IF mid * mid <= x THEN ISqrtIn(x, mid, hi) ELSE ISqrtIn(x, lo, mid)

\* 46341 * 46341 is above every 32-bit integer
ISqrt(x) == ISqrtIn(x, 0, Min2(x + 1, 46341))

\* the Euclidean distance of two points, rounded down to 1/DistScale pixel
Euclidean(p, q) ==
  ISqrt(DistScale * DistScale *
        ((p[1] - q[1]) * (p[1] - q[1]) + (p[2] - q[2]) * (p[2] - q[2])))

\* cdist raises ValueError unless both arguments are 2-dimensional; the array
\* of an empty list of points is 1-dimensional
cdistRaises(XA, XB) == XA = <<>> \/ XB = <<>>

\* line 547: cost_matrix[i][j] is the distance of XA[i] and XB[j]
cdist(XA, XB) ==
  [ i \in 1..Len(XA) |-> [ j \in 1..Len(XB) |-> Euclidean(XA[i], XB[j]) ] ]

\* ------------------------------------------------- linear_sum_assignment
\* an assignment pairs min(n, m) rows with as many columns, one-to-one; it is
\* a function from its rows (0-based) to columns (0-based)
Assignments(n, m) ==
  LET k == Min2(n, m)
  IN  UNION { { f \in [R -> 0..(m - 1)] :
                  \A a, b \in R : a # b => f[a] # f[b] } :
              R \in { T \in SUBSET (0..(n - 1)) : Cardinality(T) = k } }

RECURSIVE SumOver(_, _, _)
SumOver(cost, f, R) ==
  IF R = {} THEN 0
  ELSE LET i == CHOOSE x \in R : TRUE
       IN  cost[i + 1][f[i] + 1] + SumOver(cost, f, R \ {i})

TotalCost(cost, f) == SumOver(cost, f, DOMAIN f)

\* each of the k entries summed is below the true distance by less than one
\* unit, so totals less than k units apart are not told apart
Tolerance(f) == Max2(Cardinality(DOMAIN f), 1) - 1

\* (row_ind, col_ind) of an assignment: rows ascending, columns alongside
AsIndices(f) ==
  LET rows == SortedSeq(DOMAIN f)
  IN  [ row_ind |-> rows, col_ind |-> [ k \in 1..Len(rows) |-> f[rows[k]] ] ]

RECURSIVE GreedyFrom(_, _, _, _)
GreedyFrom(cost, i, used, f) ==
  LET n == Len(cost)
      m == Len(cost[1])
      free == (0..(m - 1)) \ used
  IN  IF i >= n \/ free = {} THEN f
      ELSE LET j == CHOOSE c \in free :
                      \A d \in free : cost[i + 1][c + 1] <= cost[i + 1][d + 1]
           IN  GreedyFrom(cost, i + 1, used \cup {j},
                          [ r \in (DOMAIN f) \cup {i} |->
                              IF r = i THEN j ELSE f[r] ])

\* each row in turn takes its nearest free column
GreedyAssignment(cost) ==
  { AsIndices(GreedyFrom(cost, 0, {}, [ r \in {} |-> 0 ])) }

\* line 550: the assignments of least total cost; the solver returns one of
\* them (which one among equals is the solver's choice)
linear_sum_assignment(cost) ==
  LET all == Assignments(Len(cost), Len(cost[1]))
      totals == { TotalCost(cost, f) : f \in all }
      least == CHOOSE t \in totals : \A u \in totals : t <= u
  IN  { AsIndices(f) :
          f \in { g \in all : TotalCost(cost, g) <= least + Tolerance(g) } }

\* line 553: Counter(col_ind)
Counter(cols) ==
  [ j \in { cols[k] : k \in 1..Len(cols) } |->
      Cardinality({ k \in 1..Len(cols) : cols[k] = j }) ]

\* Counter returns 0 for a missing key
CountOf(counts, j) == IF j \in DOMAIN counts THEN counts[j] ELSE 0

\* lines 562-567: the match is dropped when the current spindle has no area,
\* touches the image boundary or is assigned more than once
Rejected(spindle, shape, counts) ==
  \/ spindle.area = 0
  \/ spindle.bounding_box[1] <= 0
  \/ spindle.bounding_box[2] <= 0
  \/ spindle.bounding_box[3] >= 2 * shape[1]
  \/ spindle.bounding_box[4] >= 2 * shape[2]
  \/ CountOf(counts, spindle.spindle_number) > 1

PairByPosition(rows, cols, k) ==
  [ last_frame_index |-> rows[k], current_frame_index |-> k - 1 ]

PairFirstRow(rows, cols, k) ==
  [ last_frame_index |-> 0, current_frame_index |-> cols[k] ]

\* line 556: the k-th pair of zip(row_ind, col_ind)
PairOf(rows, cols, k) ==
  [ last_frame_index |-> rows[k], current_frame_index |-> cols[k] ]

\* line 573 / 575: the j-th current spindle takes identity id
SetIdentity(cur, j, id) ==
  [ i \in 1..Len(cur) |->
      IF i = j THEN [cur[i] EXCEPT !.tracked_spindle_number = id] ELSE cur[i] ]

RECURSIVE Assign(_, _, _, _, _, _, _, _)
\* lines 556-576, from the k-th pair of zip(row_ind, col_ind) on: a kept
\* match takes the identity of the last frame's spindle, or next_spindle_id
\* when that spindle has none
Assign(k, cur, next, minted, last, rows, cols, shape) ==
  IF k > Len(rows) THEN [spindles |-> cur, next |-> next, minted |-> minted]
  ELSE LET pair == PairOf(rows, cols, k)
           l == last[pair.last_frame_index + 1]
           j == pair.current_frame_index + 1
       IN  IF Rejected(cur[j], shape, Counter(cols))
           THEN Assign(k + 1, cur, next, minted, last, rows, cols, shape)
           ELSE IF l.tracked_spindle_number # None
           THEN Assign(k + 1,
                  SetIdentity(cur, j, l.tracked_spindle_number),
                  next, minted, last, rows, cols, shape)
           ELSE Assign(k + 1,
                  SetIdentity(cur, j, next),
                  next + 1, Append(minted, next), last, rows, cols, shape)

\* ------------------------------------------------------------------- state
VARIABLES
  opt,                      \* the parsed arguments: time_stamp, nr_frames, padding
  pc,                       \* "loop", "done", "raised"; "match", "matched" in MatchSpec;
                            \* "segment", "segmented" in SegmentSpec
  frame_number,             \* the frame the loop of line 496 handles next
  tracked_spindles,         \* the ledger
  img_spindle_norm,         \* "finite" or "nan": the image img_read returned;
                            \* "none" before the first call
  spindle_regions,          \* what regionprops returned for the frame, line 228
  next_spindle_id,
  current_frame_spindles,
  last_frame_spindles,
  last_frame_centroids,
  current_frame_centroids,
  row_ind,
  col_ind,
  minted                    \* history: the values taken from next_spindle_id, in order

vars == << opt, pc, frame_number, tracked_spindles, img_spindle_norm,
           spindle_regions,
           next_spindle_id,
           current_frame_spindles, last_frame_spindles, last_frame_centroids,
           current_frame_centroids, row_ind, col_ind, minted >>

\* lines 487-492, for every choice of the arguments
Init ==
  /\ opt \in [ time_stamp : 0..1, nr_frames : 1..MaxFrames,
               padding : 0..MaxPadding ]
  /\ pc = "loop"
  /\ frame_number = opt.time_stamp
  /\ tracked_spindles = <<>>
  /\ img_spindle_norm = "none"
  /\ spindle_regions = <<>>
  /\ next_spindle_id = 1
  /\ current_frame_spindles = <<>>
  /\ last_frame_spindles = <<>>
  /\ last_frame_centroids = <<>>
  /\ current_frame_centroids = <<>>
  /\ row_ind = <<>>
  /\ col_ind = <<>>
  /\ minted = <<>>

InLoop ==
  /\ pc = "loop"
  /\ frame_number < opt.time_stamp + opt.nr_frames

\* lines 505-533 for one frame
Detected(regions) ==
  LET seg == spindle_segmentation(regions, opt.padding, img_shape)
  IN  CurrentFrameSpindles(seg.bbox_list, seg.centroid_list, frame_number)

\* lines 496-540: the first frame
FirstFrame ==
  /\ InLoop
  /\ frame_number = opt.time_stamp
  /\ \E zero_variance \in BOOLEAN :
     \E regions \in SegmentedRegions(img_read(zero_variance)) :
       LET res == MintAll(Detected(regions), next_spindle_id)
       IN  /\ img_spindle_norm' = img_read(zero_variance)
           /\ spindle_regions' = regions
           /\ current_frame_spindles' = res.spindles
           /\ next_spindle_id' = res.next
           /\ minted' = minted \o res.minted
           /\ tracked_spindles' = Extend(tracked_spindles, res.spindles)
  /\ frame_number' = frame_number + 1
  /\ UNCHANGED << opt, pc, last_frame_spindles, last_frame_centroids,
                  current_frame_centroids, row_ind, col_ind >>

\* lines 496-533, 542-579: a later frame
TrackFrame ==
  /\ InLoop
  /\ frame_number # opt.time_stamp
  /\ \E zero_variance \in BOOLEAN :
     \E regions \in SegmentedRegions(img_read(zero_variance)) :
       LET cur  == Detected(regions)
           last == LastFrameSpindles(tracked_spindles, frame_number)
       IN  /\ img_spindle_norm' = img_read(zero_variance)
           /\ spindle_regions' = regions
           /\ ~ cdistRaises(Centroids(last), Centroids(cur))
           /\ \E asg \in linear_sum_assignment(cdist(Centroids(last), Centroids(cur))) :
                LET res == Assign(1, cur, next_spindle_id, <<>>, last,
                                  asg.row_ind, asg.col_ind, img_shape)
                IN  /\ row_ind' = asg.row_ind
                    /\ col_ind' = asg.col_ind
                    /\ current_frame_spindles' = res.spindles
                    /\ next_spindle_id' = res.next
                    /\ minted' = minted \o res.minted
                    /\ tracked_spindles' = Extend(tracked_spindles, res.spindles)
           /\ last_frame_spindles' = last
           /\ last_frame_centroids' = Centroids(last)
           /\ current_frame_centroids' = Centroids(cur)
  /\ frame_number' = frame_number + 1
  /\ UNCHANGED << opt, pc >>

\* lines 496-547 when cdist raises: the script ends with the ValueError and
\* the frame is not added to the ledger
TrackFrameRaises ==
  /\ InLoop
  /\ frame_number # opt.time_stamp
  /\ \E zero_variance \in BOOLEAN :
     \E regions \in SegmentedRegions(img_read(zero_variance)) :
       LET cur  == Detected(regions)
           last == LastFrameSpindles(tracked_spindles, frame_number)
       IN  /\ img_spindle_norm' = img_read(zero_variance)
           /\ spindle_regions' = regions
           /\ cdistRaises(Centroids(last), Centroids(cur))
           /\ current_frame_spindles' = cur
           /\ last_frame_spindles' = last
           /\ last_frame_centroids' = Centroids(last)
           /\ current_frame_centroids' = Centroids(cur)
  /\ pc' = "raised"
  /\ UNCHANGED << opt, frame_number, tracked_spindles, next_spindle_id,
                  row_ind, col_ind, minted >>

\* line 496: the range is exhausted
Finish ==
  /\ pc = "loop"
  /\ frame_number = opt.time_stamp + opt.nr_frames
  /\ pc' = "done"
  /\ UNCHANGED << opt, frame_number, tracked_spindles, img_spindle_norm,
                  spindle_regions,
                  next_spindle_id, current_frame_spindles, last_frame_spindles,
                  last_frame_centroids, current_frame_centroids,
                  row_ind, col_ind, minted >>

Next == FirstFrame \/ TrackFrame \/ TrackFrameRaises \/ Finish

Spec == Init /\ [][Next]_vars

\* ------------------------------------------- the matcher taken on its own
\* centroids the matcher is tried on
MatchPoints == { <<0, 0>>, <<10, 10>>, <<1, 1>>, <<9, 9>> }

CentroidLists ==
  UNION { [1..n -> MatchPoints] : n \in 1..MaxMatch }

\* lines 545-546 with arbitrary non-empty centroid lists
MatchInit ==
  /\ opt = [ time_stamp |-> 0, nr_frames |-> 2, padding |-> 0 ]
  /\ pc = "match"
  /\ frame_number = 1
  /\ tracked_spindles = <<>>
  /\ img_spindle_norm = "none"
  /\ spindle_regions = <<>>
  /\ next_spindle_id = 1
  /\ current_frame_spindles = <<>>
  /\ last_frame_spindles = <<>>
  /\ last_frame_centroids \in CentroidLists
  /\ current_frame_centroids \in CentroidLists
  /\ row_ind = <<>>
  /\ col_ind = <<>>
  /\ minted = <<>>

\* lines 547-550
MatchSolve ==
  /\ pc = "match"
  /\ \E asg \in linear_sum_assignment(
                  cdist(last_frame_centroids, current_frame_centroids)) :
       /\ row_ind' = asg.row_ind
       /\ col_ind' = asg.col_ind
  /\ pc' = "matched"
  /\ UNCHANGED << opt, frame_number, tracked_spindles, img_spindle_norm,
                  spindle_regions,
                  next_spindle_id, current_frame_spindles, last_frame_spindles,
                  last_frame_centroids, current_frame_centroids, minted >>

MatchNext == MatchSolve

MatchSpec == MatchInit /\ [][MatchNext]_vars

\* ------------------------------------ spindle_segmentation taken on its own
\* every raw bounding box regionprops can report in the image
RawBoxes ==
  { b \in (0..ImgRows) \X (0..ImgCols) \X (0..ImgRows) \X (0..ImgCols) :
      b[1] < b[3] /\ b[2] < b[4] }

\* line 228 with one region of any bounding box
SegmentInit ==
  /\ opt \in [ time_stamp : {0}, nr_frames : {1}, padding : 0..MaxPadding ]
  /\ pc = "segment"
  /\ frame_number = 0
  /\ tracked_spindles = <<>>
  /\ img_spindle_norm = "none"
  /\ spindle_regions \in
       { << [bbox |-> b, centroid |-> <<b[1], b[2]>>] >> : b \in RawBoxes }
  /\ next_spindle_id = 1
  /\ current_frame_spindles = <<>>
  /\ last_frame_spindles = <<>>
  /\ last_frame_centroids = <<>>
  /\ current_frame_centroids = <<>>
  /\ row_ind = <<>>
  /\ col_ind = <<>>
  /\ minted = <<>>

\* lines 505-533
Segment ==
  /\ pc = "segment"
  /\ current_frame_spindles' = Detected(spindle_regions)
  /\ pc' = "segmented"
  /\ UNCHANGED << opt, frame_number, tracked_spindles, img_spindle_norm,
                  spindle_regions,
                  next_spindle_id, last_frame_spindles, last_frame_centroids,
                  current_frame_centroids, row_ind, col_ind, minted >>

SegmentNext == Segment

SegmentSpec == SegmentInit /\ [][SegmentNext]_vars

TypeOK ==
  /\ pc \in {"loop", "done", "raised", "match", "matched", "segment", "segmented"}
  /\ next_spindle_id \in Nat

\* ------------------------------------------------------------- properties
Ids(spindles) ==
  { spindles[k].tracked_spindle_number : k \in 1..Len(spindles) } \ {None}

FrameOf(ledger, frame) == SelectSeq(ledger, LAMBDA s : s.frame_number = frame)

\* the frame handled last is frame_number - 1; it went through the matcher
\* when it is not the first frame
LastHandled == frame_number - 1

Tracked == pc \in {"loop", "done", "raised"}

Touching(box) ==
  \/ box[1] <= 0
  \/ box[2] <= 0
  \/ box[3] >= 2 * ImgRows
  \/ box[4] >= 2 * ImgCols

\* C1: no two spindles of the same frame in tracked_spindles carry the same
\* non-null tracked_spindle_number.
C1_AtMostOneClaim ==
  \A a, b \in 1..Len(tracked_spindles) :
    ( /\ a # b
      /\ tracked_spindles[a].frame_number = tracked_spindles[b].frame_number
      /\ tracked_spindles[a].tracked_spindle_number # None )
    => tracked_spindles[a].tracked_spindle_number
         # tracked_spindles[b].tracked_spindle_number

\* a frame after the first holds two identified spindles
C1_Witness ==
  \E a, b \in 1..Len(tracked_spindles) :
    /\ a # b
    /\ tracked_spindles[a].frame_number = tracked_spindles[b].frame_number
    /\ tracked_spindles[a].frame_number > opt.time_stamp
    /\ tracked_spindles[a].tracked_spindle_number # None
    /\ tracked_spindles[b].tracked_spindle_number # None

\* C2: the identities taken from next_spindle_id start at 1 and each is
\* greater than all taken before; every identity of the ledger was taken
\* from the counter and is below it; the counter never decreases.
C2_IdentityMonotonic ==
  /\ [] ( /\ (minted # <<>> => minted[1] = 1)
          /\ \A a, b \in 1..Len(minted) : a < b => minted[a] < minted[b]
          /\ Ids(tracked_spindles) \subseteq { minted[k] : k \in 1..Len(minted) }
          /\ \A i \in Ids(tracked_spindles) : i < next_spindle_id )
  /\ [][ next_spindle_id' >= next_spindle_id ]_vars

\* an identity was minted after the first frame
C2_Witness ==
  /\ Len(FrameOf(tracked_spindles, opt.time_stamp)) >= 1
  /\ \E k \in 1..Len(tracked_spindles) :
       /\ tracked_spindles[k].frame_number > opt.time_stamp
       /\ tracked_spindles[k].tracked_spindle_number # None
       /\ tracked_spindles[k].tracked_spindle_number
            \notin Ids(FrameOf(tracked_spindles, opt.time_stamp))

\* C3 as stated: in a frame after the first only spindles rejected for
\* touching the boundary or for zero area are recorded without identity.
C3_UnmatchedGetFreshId ==
  \A k \in 1..Len(tracked_spindles) :
    ( /\ tracked_spindles[k].frame_number > opt.time_stamp
      /\ tracked_spindles[k].tracked_spindle_number = None )
    => ( \/ tracked_spindles[k].area = 0
         \/ Touching(tracked_spindles[k].bounding_box) )

\* C3: in a frame after the first, a current spindle the solver leaves
\* unmatched is recorded in the ledger with a null identity.
C3_UnmatchedStayNull ==
  ( Tracked /\ LastHandled > opt.time_stamp )
  => LET batch == FrameOf(tracked_spindles, LastHandled)
     IN  \A k \in 1..Len(batch) :
           batch[k].spindle_number \notin { col_ind[i] : i \in 1..Len(col_ind) }
           => batch[k].tracked_spindle_number = None

\* a frame after the first holds more spindles than the frame before it
C3_Witness ==
  /\ Tracked
  /\ LastHandled > opt.time_stamp
  /\ Len(FrameOf(tracked_spindles, LastHandled))
       > Len(FrameOf(tracked_spindles, LastHandled - 1))
  /\ \E k \in 1..Len(tracked_spindles) :
       /\ tracked_spindles[k].frame_number = LastHandled
       /\ tracked_spindles[k].tracked_spindle_number = None

\* C4 as stated: every spindle of the matcher's previous list carries an
\* identity.
C4_PreviousAllIdentified ==
  \A k \in 1..Len(last_frame_spindles) :
    last_frame_spindles[k].tracked_spindle_number # None

\* C4: the matcher's previous list is every ledger spindle of the frame
\* before, with or without identity; a matched current spindle takes the
\* identity of its previous spindle when that has one and otherwise one that
\* is greater than every identity of the earlier frames.
C4_PreviousIsWholeFrame ==
  ( pc \in {"loop", "done"} /\ LastHandled > opt.time_stamp )
  => /\ last_frame_spindles = FrameOf(tracked_spindles, LastHandled - 1)
     /\ current_frame_spindles = FrameOf(tracked_spindles, LastHandled)
     /\ \A k \in 1..Len(row_ind) :
          LET p == last_frame_spindles[row_ind[k] + 1]
              c == current_frame_spindles[col_ind[k] + 1]
          IN  IF p.tracked_spindle_number # None
              THEN c.tracked_spindle_number = p.tracked_spindle_number
              ELSE /\ c.tracked_spindle_number # None
                   /\ \A i \in Ids(SelectSeq(tracked_spindles,
                                     LAMBDA s : s.frame_number < LastHandled)) :
                        c.tracked_spindle_number > i

\* a current spindle was matched to a previous spindle without identity
C4_Witness ==
  /\ pc \in {"loop", "done"}
  /\ LastHandled > opt.time_stamp
  /\ \E k \in 1..Len(row_ind) :
       /\ last_frame_spindles[row_ind[k] + 1].tracked_spindle_number = None
       /\ current_frame_spindles[col_ind[k] + 1].tracked_spindle_number # None

\* C5: after the first frame the ledger is the N regularised spindles of that
\* frame, the k-th in detection order carrying identity k, and
\* next_spindle_id is N + 1.
C5_FirstFrameBijection ==
  ( pc \in {"loop", "done"} /\ LastHandled = opt.time_stamp )
  => LET N == Len(current_frame_spindles)
     IN  /\ Len(tracked_spindles) = N
         /\ \A k \in 1..Len(tracked_spindles) :
              /\ tracked_spindles[k].frame_number = opt.time_stamp
              /\ tracked_spindles[k].spindle_number = k - 1
              /\ tracked_spindles[k].tracked_spindle_number = k
         /\ Ids(tracked_spindles) = 1..N
         /\ next_spindle_id = N + 1

\* the first frame yielded two spindles
C5_Witness ==
  /\ pc = "loop"
  /\ LastHandled = opt.time_stamp
  /\ Len(current_frame_spindles) = 2

\* C6: every spindle of the ledger has its box strictly inside the image
\* and a positive area, so none that touches the boundary or has zero area
\* carries an identity.
C6_BoundaryExclusion ==
  \A k \in 1..Len(tracked_spindles) :
    LET s == tracked_spindles[k]
    IN  /\ s.bounding_box[1] > 0
        /\ s.bounding_box[2] > 0
        /\ s.bounding_box[3] < 2 * ImgRows
        /\ s.bounding_box[4] < 2 * ImgCols
        /\ ( (Touching(s.bounding_box) \/ s.area = 0)
             => s.tracked_spindle_number = None )

\* a frame after the first: regionprops reported a region whose box touches
\* the boundary, and the one spindle kept was the only candidate of the one
\* spindle before it
C6_Witness ==
  /\ pc = "loop"
  /\ LastHandled > opt.time_stamp
  /\ \E k \in 1..Len(spindle_regions) :
       ~ Accept(Regularize(spindle_regions[k].bbox, opt.padding, img_shape),
                img_shape)
  /\ Len(last_frame_spindles) = 1
  /\ Len(FrameOf(tracked_spindles, LastHandled)) = 1
  /\ tracked_spindles[Len(tracked_spindles)].tracked_spindle_number # None

\* C7 as stated: a frame after the first with no current spindle, or with no
\* spindle in the frame before, is handled without raising.
C7_EmptyInputsNotErrors ==
  ~ ( /\ pc = "raised"
      /\ (current_frame_spindles = <<>> \/ last_frame_spindles = <<>>) )

\* the pairs of previous and current centroids (1-based) the matcher uses
UsedPairs == { << row_ind[k] + 1, col_ind[k] + 1 >> : k \in 1..Len(row_ind) }

Injections(A, B) ==
  { f \in [A -> B] : \A a, b \in A : a # b => f[a] # f[b] }

Pairings(n, m) ==
  IF n <= m
  THEN { { << i, f[i] >> : i \in 1..n } : f \in Injections(1..n, 1..m) }
  ELSE { { << g[j], j >> : j \in 1..m } : g \in Injections(1..m, 1..n) }

RECURSIVE PairTotal(_)
PairTotal(S) ==
  IF S = {} THEN 0
  ELSE LET p == CHOOSE x \in S : TRUE
       IN  Euclidean(last_frame_centroids[p[1]], current_frame_centroids[p[2]])
             + PairTotal(S \ {p})

\* C8: the pairs of zip(row_ind, col_ind) are a one-to-one pairing of
\* min(|previous|, |current|) previous and current centroids whose total
\* Euclidean distance no other such pairing undercuts (distances are known to
\* 1/DistScale pixel); previous (0,0),(10,10) and current (1,1),(9,9) are
\* paired (0,0)-(1,1) and (10,10)-(9,9).
C8_MatchingOptimal ==
  pc = "matched"
  => LET n == Len(last_frame_centroids)
         m == Len(current_frame_centroids)
     IN  /\ Len(row_ind) = Min2(n, m)
         /\ Len(col_ind) = Min2(n, m)
         /\ UsedPairs \in Pairings(n, m)
         /\ \A S \in Pairings(n, m) :
              PairTotal(UsedPairs) <= PairTotal(S) + Min2(n, m) - 1
         /\ ( /\ last_frame_centroids = << <<0, 0>>, <<10, 10>> >>
              /\ current_frame_centroids = << <<1, 1>>, <<9, 9>> >> )
            => UsedPairs = { <<1, 1>>, <<2, 2>> }

\* the matcher has paired previous (0,0),(10,10) with current (1,1),(9,9)
C8_Witness ==
  /\ pc = "matched"
  /\ last_frame_centroids = << <<0, 0>>, <<10, 10>> >>
  /\ current_frame_centroids = << <<1, 1>>, <<9, 9>> >>
  /\ Len(row_ind) = 2

\* C9: a step only appends to tracked_spindles: the entries already there
\* stay as they are and where they are, and the entries added all belong to
\* the frame being handled, which is later than every frame already there.
C9_LedgerAppendOnly ==
  [][ /\ Len(tracked_spindles') >= Len(tracked_spindles)
      /\ \A k \in 1..Len(tracked_spindles) :
           tracked_spindles'[k] = tracked_spindles[k]
      /\ \A k \in (Len(tracked_spindles) + 1)..Len(tracked_spindles') :
           /\ tracked_spindles'[k].frame_number = frame_number
           /\ \A j \in 1..Len(tracked_spindles) :
                tracked_spindles[j].frame_number < frame_number ]_vars

\* a spindle recorded without identity is still so two frames later
C9_Witness ==
  \E k \in 1..Len(tracked_spindles) :
    /\ tracked_spindles[k].tracked_spindle_number = None
    /\ tracked_spindles[k].frame_number < LastHandled
    /\ FrameOf(tracked_spindles, LastHandled) # <<>>

\* C10: a box the regulariser keeps is the square of side max(height, width)
\* + 2 * padding about the centre of the raw box; with padding 0 a square raw
\* box is kept as it is.
C10_RegularizerGeometry ==
  ( pc = "segmented" /\ current_frame_spindles # <<>> )
  => LET raw  == spindle_regions[1].bbox
         box  == current_frame_spindles[1].bounding_box
         side == Max2(raw[3] - raw[1], raw[4] - raw[2]) + 2 * opt.padding
     IN  /\ box[3] - box[1] = 2 * side
         /\ box[4] - box[2] = 2 * side
         /\ box[1] + box[3] = 2 * (raw[1] + raw[3])
         /\ box[2] + box[4] = 2 * (raw[2] + raw[4])
         /\ ( opt.padding = 0 /\ raw[3] - raw[1] = raw[4] - raw[2] )
            => box = << 2 * raw[1], 2 * raw[2], 2 * raw[3], 2 * raw[4] >>

\* a square raw box was kept with padding 0, and an oblong one with padding
C10_Witness ==
  /\ pc = "segmented"
  /\ current_frame_spindles # <<>>
  /\ \/ /\ opt.padding = 0
        /\ spindle_regions[1].bbox[3] - spindle_regions[1].bbox[1]
             = spindle_regions[1].bbox[4] - spindle_regions[1].bbox[2]
     \/ /\ opt.padding > 0
        /\ spindle_regions[1].bbox[3] - spindle_regions[1].bbox[1]
             # spindle_regions[1].bbox[4] - spindle_regions[1].bbox[2]

\* C11 as stated: once img_read has met a spindle channel with max = min, the
\* run has ended in an error on that frame, which is not in the ledger.
C11_DegenerateFrameAborts ==
  img_spindle_norm = "nan"
  => /\ pc = "raised"
     /\ FrameOf(tracked_spindles, frame_number) = <<>>

EarlierThan(ledger, frame) ==
  SelectSeq(ledger, LAMBDA s : s.frame_number < frame)

\* C12: an identity carried in a frame after the first is carried in the
\* frame before it or is greater than every identity of the earlier frames
\* (minted in that frame); so an identity missing from a frame is in no
\* later frame.
C12_TrackContiguity ==
  /\ \A k \in 1..Len(tracked_spindles) :
       LET s == tracked_spindles[k]
       IN  ( s.frame_number > opt.time_stamp
             /\ s.tracked_spindle_number # None )
           => \/ s.tracked_spindle_number
                   \in Ids(FrameOf(tracked_spindles, s.frame_number - 1))
              \/ \A i \in Ids(EarlierThan(tracked_spindles, s.frame_number)) :
                   s.tracked_spindle_number > i
  /\ \A f1, f2, f3 \in opt.time_stamp..LastHandled :
       ( f1 < f2 /\ f2 < f3 )
       => \A i \in Ids(FrameOf(tracked_spindles, f1)) :
            i \notin Ids(FrameOf(tracked_spindles, f2))
            => i \notin Ids(FrameOf(tracked_spindles, f3))

\* an identity of the first frame is missing from the second, and the third
\* frame carries identities
C12_Witness ==
  /\ Tracked
  /\ LastHandled >= opt.time_stamp + 2
  /\ \E i \in Ids(FrameOf(tracked_spindles, opt.time_stamp)) :
       i \notin Ids(FrameOf(tracked_spindles, opt.time_stamp + 1))
  /\ Ids(FrameOf(tracked_spindles, opt.time_stamp + 2)) # {}

Identified(spindles) ==
  SelectSeq(spindles, LAMBDA s : s.tracked_spindle_number # None)

\* C13: in a frame after the first no pair of the solver meets the rejection
\* test of lines 562-567 (zero area, box on the image boundary, column used
\* more than once), every current spindle of a pair ends with an identity,
\* and the number of identified spindles of the frame is the smaller of the
\* sizes of the previous frame and of the frame.
C13_RejectionUnreachable ==
  /\ ( pc \in {"loop", "done"} /\ LastHandled > opt.time_stamp )
     => \A k \in 1..Len(row_ind) :
          LET c == current_frame_spindles[col_ind[k] + 1]
          IN  /\ ~ Rejected(c, img_shape, Counter(col_ind))
              /\ c.tracked_spindle_number # None
  /\ \A f \in (opt.time_stamp + 1)..LastHandled :
       Len(Identified(FrameOf(tracked_spindles, f)))
         = Min2(Len(FrameOf(tracked_spindles, f - 1)),
                Len(FrameOf(tracked_spindles, f)))

\* a frame after the first with two spindles met one spindle of the frame
\* before: one pair, one identified spindle
C13_Witness ==
  /\ pc = "loop"
  /\ LastHandled > opt.time_stamp
  /\ Len(last_frame_spindles) = 1
  /\ Len(current_frame_spindles) = 2
  /\ Len(row_ind) = 1
  /\ Len(Identified(FrameOf(tracked_spindles, LastHandled))) = 1

====
